---- MODULE Spec2Model ----
(***************************************************************************)
(* A model of pyglmnet's GLM estimator (src/pyglmnet/pyglmnet.py): the     *)
(* proximal operator, the regularisation-path driver fit() with its two    *)
(* solvers, and the estimator operations predict, score, simulate and      *)
(* __getitem__.                                                            *)
(*                                                                         *)
(* Specifications.  Spec: every operation of one estimator, a call of fit  *)
(* taken one statement group at a time.  SpecFit: the calls of fit alone,  *)
(* weakly fair on the steps of a running call.  SpecProx: the proximal     *)
(* operator applied to vectors of the grid.                                *)
(*                                                                         *)
(* Numbers.  A float is modelled as an integer count of 1/Scale units      *)
(* (fixed point).  +, - and comparisons are exact; a product or quotient   *)
(* of two floats is rounded toward zero to the grid and a square root is   *)
(* rounded up to the grid, which stands for the rounding of float64.       *)
(* np.sign() and boolean masks are plain integers -1, 0, 1.                *)
(***************************************************************************)
EXTENDS Integers, Sequences, FiniteSets, TLC

VARIABLES
    glm,    \* the estimator object (self): its parameters, fit_ and ynull_
    ret,    \* what the last finished call returned or raised
    rng,    \* the state of numpy's global random generator (np.random)
    fc,     \* the frame of a running fit(): its locals and its arrays
    prev,   \* history: the last fit() that returned, with its inputs
    px      \* the proximal operator applied on its own (SpecProx)

vars == <<glm, ret, rng, fc, prev, px>>

(***************************************************************************)
(* Bounds of the model.                                                    *)
(***************************************************************************)
Scale == 2          \* grid units per 1.0
MaxCoef == 4        \* coefficients and thresholds are drawn from -MaxCoef..MaxCoef grid units
NFeatures == 2      \* X.shape[1] of a well-formed design matrix
MaxGroupId == 1     \* group ids are drawn from 0..MaxGroupId
MaxLambdas == 2     \* the longest explicit regularisation path
MaxIter == 4        \* max_iter of the estimators that iterate
RngPeriod == 2      \* distinct states of the random generator

\* Python values that may be None are tagged records
None == [tag |-> "None"]

Arr(v) == [tag |-> "array", v |-> v]

(***************************************************************************)
(* Arithmetic on the grid.                                                 *)
(***************************************************************************)
\* The scalar operations are applications of functions, so that an argument
\* is evaluated once however often the body uses it.
AbsOf == [x \in Int |-> IF x < 0 THEN -x ELSE x]

Abs(x) == AbsOf[x]

SignOf == [x \in Int |-> IF x > 0 THEN 1 ELSE IF x < 0 THEN -1 ELSE 0]

Sign(x) == SignOf[x]

Max(a, b) == IF a >= b THEN a ELSE b

\* a / b rounded toward zero, b # 0
TDivOf == [a \in Int, b \in Int |->
              IF SignOf[a] * SignOf[b] < 0 THEN -(AbsOf[a] \div AbsOf[b])
              ELSE AbsOf[a] \div AbsOf[b]]

TDiv(a, b) == TDivOf[a, b]

FMul(a, b) == TDiv(a * b, Scale)

FDiv(a, b) == TDiv(a * Scale, b)

\* the least r with r * r >= n
SqrtUpOf == [n \in Nat |-> CHOOSE r \in 0..n : r * r >= n /\ (r = 0 \/ (r - 1) * (r - 1) < n)]

SqrtUp(n) == SqrtUpOf[n]

\* s[1] + ... + s[n]
RECURSIVE SumTo(_, _)
SumTo(s, n) == IF n = 0 THEN 0 ELSE SumTo(s, n - 1) + s[n]

SumSeq(s) == SumTo(s, Len(s))

Idx(s) == 1..Len(s)

Vec == Seq(Int)

Mat == Seq(Vec)

SumSq(beta, mask) == SumSeq([i \in Idx(beta) |-> IF mask[i] THEN beta[i] * beta[i] ELSE 0])

Norm2Of == [beta \in Vec, mask \in Seq(BOOLEAN) |-> SqrtUp(SumSq(beta, mask))]

\* np.linalg.norm(v, 2) over the masked entries
Norm2(beta, mask) == Norm2Of[beta, mask]

(***************************************************************************)
(* GLM._prox, ungrouped: soft thresholding, a new array.                   *)
(***************************************************************************)
ProxSoftNoMask(beta, thresh) ==
    [i \in Idx(beta) |-> Sign(beta[i]) * (Abs(beta[i]) - thresh)]

ProxSoftNoSign(beta, thresh) ==
    [i \in Idx(beta) |-> (Abs(beta[i]) - thresh) * (IF Abs(beta[i]) > thresh THEN 1 ELSE 0)]

ProxSoft(beta, thresh) ==
    [i \in Idx(beta) |->
        Sign(beta[i]) * (Abs(beta[i]) - thresh) * (IF Abs(beta[i]) > thresh THEN 1 ELSE 0)]

(***************************************************************************)
(* GLM._prox, grouped.  group_norms starts as |beta| and the entries of    *)
(* every nonzero group id are overwritten by the group's L2 norm; result   *)
(* IS beta (the same array), and only the entries whose norm is positive   *)
(* and over the threshold are assigned.                                    *)
(***************************************************************************)
GroupNorms(beta, group) ==
    [i \in Idx(beta) |->
        IF group[i] # 0
        THEN Norm2(beta, [j \in Idx(beta) |-> group[j] = group[i]])
        ELSE Abs(beta[i])]

ProxGroup(beta, group, thresh) ==
    LET group_norms == GroupNorms(beta, group)
        idxs_to_update == [i \in Idx(beta) |-> group_norms[i] > 0 /\ group_norms[i] > thresh]
    IN  [i \in Idx(beta) |->
            IF idxs_to_update[i]
            THEN beta[i] - FDiv(FMul(thresh, beta[i]), group_norms[i])
            ELSE beta[i]]

\* the values of the array _prox returns
Prox(group, beta, thresh) ==
    IF group = None THEN ProxSoft(beta, thresh) ELSE ProxGroup(beta, group.v, thresh)

\* the values the argument array holds after the call: the grouped branch
\* writes through result = beta, the ungrouped branch leaves beta alone
ProxArg(group, beta, thresh) ==
    IF group = None THEN beta ELSE ProxGroup(beta, group.v, thresh)

(***************************************************************************)
(* Linear algebra on the grid.  A matrix is a sequence of rows.            *)
(***************************************************************************)
DotOf == [u \in Vec, v \in Vec |-> SumSeq([j \in Idx(u) |-> FMul(u[j], v[j])])]

Dot(u, v) == DotOf[u, v]

MatVecOf == [M \in Mat, v \in Vec |-> [i \in Idx(M) |-> DotOf[M[i], v]]]

MatVec(M, v) == MatVecOf[M, v]

Col(M, j) == [i \in Idx(M) |-> M[i][j]]

Eye(n) == [i \in 1..n |-> [j \in 1..n |-> IF i = j THEN Scale ELSE 0]]

\* np.dot(Tau.T, Tau)
GramOf == [Tau \in Mat |->
              [i \in Idx(Tau[1]) |-> [j \in Idx(Tau[1]) |-> Dot(Col(Tau, i), Col(Tau, j))]]]

InvCovOf(Tau) == GramOf[Tau]

\* 0.5 * x
Half(x) == TDiv(x, 2)

(***************************************************************************)
(* Link and likelihood, distr = 'gaussian' (_qu is the identity).  The     *)
(* other families need exp, log and tanh, which the grid does not have;    *)
(* the model fits them only with max_iter = 0, where none of these         *)
(* functions is called.                                                    *)
(***************************************************************************)
Qu(z) == z

\* GLM._lmb: z = beta0 + np.dot(X, beta)
Lmb(beta0, beta, X) == Qu([i \in Idx(X) |-> beta0 + Dot(X[i], beta)])

\* GLM._logL: -0.5 * 1. / n_samples * np.sum((y - l)**2)
LogL(beta0, beta, X, y) ==
    LET l == Lmb(beta0, beta, X)
    IN  -TDiv(Half(SumSeq([i \in Idx(y) |-> FMul(y[i] - l[i], y[i] - l[i])])), Len(X))

(***************************************************************************)
(* Penalties.  self is the estimator (a record of its attributes).         *)
(***************************************************************************)
TauShapeOK(Tau, beta) == Len(Tau.v) = Len(beta) /\ Len(Tau.v[1]) = Len(beta)

\* GLM._L2penalty raises ValueError('Tau should be (n_features x n_features)')
L2penaltyRaises(self, beta) == self.Tau # None /\ ~TauShapeOK(self.Tau, beta)

AllTrue(beta) == [i \in Idx(beta) |-> TRUE]

L2penalty(self, beta) ==
    LET nrm == IF self.Tau = None
               THEN Norm2(beta, AllTrue(beta))
               ELSE LET tb == MatVec(self.Tau.v, beta) IN Norm2(tb, AllTrue(tb))
    IN  FMul(nrm, nrm)

L1penalty(self, beta) ==
    IF self.group = None
    THEN SumSeq([i \in Idx(beta) |-> Abs(beta[i])])
    ELSE LET group == self.group.v
             group_ids == {group[i] : i \in Idx(group)} \ {0}
             ids == [n \in 0..MaxGroupId |->
                        IF n \in group_ids
                        THEN Norm2(beta, [j \in Idx(beta) |-> group[j] = n])
                        ELSE 0]
         IN  SumSeq([n \in 1..MaxGroupId |-> ids[n]])
             + SumSeq([i \in Idx(beta) |-> IF group[i] = 0 THEN Abs(beta[i]) ELSE 0])

Penalty(self, beta) ==
    FMul(Half(Scale - self.alpha), L2penalty(self, beta))
        + FMul(self.alpha, L1penalty(self, beta))

\* GLM._loss: J = -L + reg_lambda * P
Loss(self, beta0, beta, reg_lambda, X, y) ==
    -LogL(beta0, beta, X, y) + FMul(reg_lambda, Penalty(self, beta))

(***************************************************************************)
(* GLM._grad_L2loss, gaussian.  np.dot(InvCov, beta) raises ValueError     *)
(* (shapes not aligned) when Tau is not n_features wide.                   *)
(***************************************************************************)
GradRaises(self, beta) == self.Tau # None /\ Len(self.Tau.v[1]) # Len(beta)

GradL2loss(self, beta0, beta, reg_lambda, X, y) ==
    LET n_samples == Len(X)
        Tau == IF self.Tau = None THEN Eye(Len(beta)) ELSE self.Tau.v
        InvCov == InvCovOf(Tau)
        z == [i \in Idx(X) |-> beta0 + Dot(X[i], beta)]
        reg == MatVec(InvCov, beta)
    IN  [beta0 |-> TDiv(SumSeq([i \in Idx(X) |-> z[i] - y[i]]), n_samples),
         beta |-> [j \in Idx(beta) |->
                     TDiv(SumSeq([i \in Idx(X) |-> FMul(z[i] - y[i], X[i][j])]), n_samples)
                       + FMul(FMul(reg_lambda, Scale - self.alpha), reg[j])]]

(***************************************************************************)
(* GLM._gradhess_logloss_1d, gaussian.                                     *)
(***************************************************************************)
GradhessLogloss1d(xk, y, z) ==
    [gk |-> TDiv(SumSeq([i \in Idx(xk) |-> FMul(z[i] - y[i], xk[i])]), Len(xk)),
     hk |-> TDiv(SumSeq([i \in Idx(xk) |-> FMul(xk[i], xk[i])]), Len(xk))]

(***************************************************************************)
(* One coordinate of GLM._cdfast (the body of the loop over k).  beta is   *)
(* the whole coefficient array, beta[1] the intercept (k = 0).  With Tau   *)
(* given, InvCov[k - 1, :] (1-D) times beta[1:] (a column) broadcasts to   *)
(* a matrix and np.sum adds all of its entries; row k - 1 = -1 is the last *)
(* row.  1. / hk * gk is rounded once.                                     *)
(***************************************************************************)
\* np.sum(r * b) for r of shape (m,) and b of shape (n, 1)
OuterSum == [r \in Vec, b \in Vec |->
                SumSeq([i \in Idx(b) |-> SumSeq([j \in Idx(r) |-> FMul(r[j], b[i])])])]

\* lines 538-559: the update of a coordinate that is in the active set
CdActiveCoordinate(self, X, y, z, beta, rl, k) ==
    LET reg_scale == FMul(rl, Scale - self.alpha)
        xk == IF k > 0 THEN Col(X, k) ELSE [i \in Idx(X) |-> Scale]
        gh == GradhessLogloss1d(xk, y, z)
        InvCov == InvCovOf(self.Tau.v)
        row == IF k > 0 THEN k ELSE Len(InvCov)
        gk_reg == IF self.Tau = None THEN beta[k + 1]
                  ELSE OuterSum[InvCov[row], Tail(beta)]
        hk_reg == IF self.Tau = None THEN Scale ELSE InvCov[row][row]
        gk == gh.gk + (IF k > 0 THEN FMul(reg_scale, gk_reg) ELSE 0)
        hk == gh.hk + (IF k > 0 THEN FMul(reg_scale, hk_reg) ELSE 0)
        update == FDiv(gk, hk)
    IN  [u \in Int |->
            [beta |-> [beta EXCEPT ![k + 1] = beta[k + 1] - u],
             z |-> [i \in Idx(z) |-> z[i] - FMul(u, xk[i])]]][update]

\* line 537: only coordinates in the active set are updated
CdCoordinateIgnoresActiveSet(self, X, y, z, ActiveSet, beta, rl, k) ==
    CdActiveCoordinate(self, X, y, z, beta, rl, k)

CdCoordinate(self, X, y, z, ActiveSet, beta, rl, k) ==
    IF ActiveSet[k + 1] = 0 THEN [beta |-> beta, z |-> z]
    ELSE CdActiveCoordinate(self, X, y, z, beta, rl, k)

(***************************************************************************)
(* Python values.                                                          *)
(***************************************************************************)
List(v) == [tag |-> "list", v |-> v]

Dict(v) == [tag |-> "dict", v |-> v]

Scalar(v) == [tag |-> "scalar", v |-> v]

\* a 2-D float array of shape (n, p)
NdArray(n, p, v) == [tag |-> "ndarray", n |-> n, p |-> p, v |-> v]

Raised(op, exc) == [op |-> op, kind |-> exc]

NoCall == [op |-> "none", kind |-> "none"]

(***************************************************************************)
(* Arrays of a running fit.  heap maps an array's identity to its values;  *)
(* a view names an array and a range of it (numpy basic slicing shares the *)
(* memory).                                                                *)
(***************************************************************************)
View(a, lo, hi) == [a |-> a, lo |-> lo, hi |-> hi]

Read(heap, view) == SubSeq(heap[view.a], view.lo, view.hi)

NewId(heap) == CHOOSE id \in 1..(Cardinality(DOMAIN heap) + 1) : id \notin DOMAIN heap

Alloc(heap, vals) == [id \in DOMAIN heap \cup {NewId(heap)} |->
                        IF id \in DOMAIN heap THEN heap[id] ELSE vals]

Free(heap, a) == [id \in DOMAIN heap \ {a} |-> heap[id]]

EmptyHeap == [id \in {} |-> <<>>]

\* the values a fit record holds
Deref(heap, rec) == [beta0 |-> Read(heap, rec.beta0), beta |-> Read(heap, rec.beta)]

Referenced(fit_params, a) ==
    \E i \in Idx(fit_params) : fit_params[i].beta0.a = a \/ fit_params[i].beta.a = a

(***************************************************************************)
(* Inputs.                                                                 *)
(***************************************************************************)
NSamples == NFeatures

XFit == NdArray(NSamples, NFeatures,
                [i \in 1..NSamples |-> [j \in 1..NFeatures |-> IF j <= i THEN Scale ELSE -Scale]])

\* one more column than XFit
XWide == NdArray(NSamples, NFeatures + 1,
                 [i \in 1..NSamples |-> [j \in 1..(NFeatures + 1) |-> IF j <= i THEN Scale ELSE -Scale]])

XEmpty == NdArray(0, NFeatures, <<>>)

XNoFeatures == NdArray(NSamples, 0, [i \in 1..NSamples |-> <<>>])

XOneRow == NdArray(1, NFeatures, <<[j \in 1..NFeatures |-> Scale]>>)

XNotArray == [tag |-> "list"]

YFit == [i \in 1..NSamples |-> IF i = 1 THEN MaxCoef ELSE -1]

\* np.logspace(np.log(0.5), np.log(0.01), 10, base=np.exp(1.)), in thousandths
DefaultLambdaMilli == <<500, 324, 210, 136, 88, 57, 37, 24, 15, 10>>

DefaultPath == List([i \in Idx(DefaultLambdaMilli) |-> TDiv(DefaultLambdaMilli[i] * Scale, 1000)])

\* an explicit path of n lambdas, decreasing
Path(n) == List([i \in 1..n |-> (n - i + 1) * Scale])

\* np.random.normal(0.0, 1.0, ...): the (i+1)-th value of the next block of
\* draws in generator state r
Normal(r, i) == (((3 * r + 2 * i + 1) % (2 * MaxCoef + 1)) - MaxCoef) * (NFeatures + 1)

NextRng(r) == (r + 1) % RngPeriod

(***************************************************************************)
(* The estimators the model starts from (GLM.__init__).                    *)
(***************************************************************************)
Distrs == {"gaussian", "binomial", "poisson", "softplus", "multinomial"}

Solvers == {"batch-gradient", "cdfast"}

Metrics == {"deviance", "pseudo_R2", "accuracy"}

BaseGLM == [distr |-> "gaussian", alpha |-> Half(Scale), Tau |-> None, group |-> None,
            reg_lambda |-> Path(MaxLambdas), solver |-> "cdfast",
            learning_rate |-> Half(Scale), max_iter |-> MaxIter, tol |-> 1,
            score_metric |-> "deviance", random_state |-> 0,
            fit_ |-> None, ynull_ |-> None]

GroupOnes == Arr([j \in 1..NFeatures |-> 1])

GroupWrongShape == Arr([j \in 1..(NFeatures + 1) |-> 1])

TauWrongShape == Arr(Eye(NFeatures + 1))

Estimators ==
    {[BaseGLM EXCEPT !.solver = s, !.group = g, !.reg_lambda = Path(n)] :
        s \in Solvers, g \in {None, GroupOnes}, n \in 0..MaxLambdas}
    \cup {[BaseGLM EXCEPT !.solver = s, !.Tau = T] :
        s \in Solvers, T \in {Arr(Eye(NFeatures)), TauWrongShape}}
    \cup {[BaseGLM EXCEPT !.group = GroupWrongShape],
          [BaseGLM EXCEPT !.reg_lambda = None],
          [BaseGLM EXCEPT !.max_iter = 0]}
    \cup {[BaseGLM EXCEPT !.distr = d, !.score_metric = m, !.max_iter = 0,
                          !.solver = "batch-gradient"] :
        d \in Distrs, m \in Metrics}

FcIdle == [pc |-> "idle", X |-> <<>>, y |-> <<>>, heap |-> EmptyHeap, fit_params |-> <<>>,
           l |-> 0, beta |-> 0, g |-> <<>>, ActiveSet |-> <<>>, z |-> <<>>,
           L |-> <<>>, DL |-> <<>>, t |-> 0, k |-> 0, init |-> <<>>, ended |-> <<>>]

PxIdle == [pc |-> "off", group |-> None, thresh |-> 0,
           orig |-> <<>>, beta |-> <<>>, res |-> <<>>, first |-> <<>>]

Init ==
    /\ glm \in Estimators
    /\ ret = NoCall
    /\ rng = 0
    /\ fc = FcIdle
    /\ prev = None
    /\ px = PxIdle

(***************************************************************************)
(* GLM.fit, lines 578-629: validation, the default path, the initial       *)
(* coefficients.  np.random.RandomState(self.random_state) builds a        *)
(* generator and drops it: the draws come from the global generator.       *)
(* The model fits a non-gaussian family only with max_iter = 0, and never  *)
(* 'multinomial' (utils.label_binarizer is not part of the source).        *)
(***************************************************************************)
FitModelled(self) ==
    /\ self.distr # "multinomial"
    /\ self.distr = "gaussian" \/ self.max_iter = 0

WithDefaultPathAndReset(self) ==
    [self EXCEPT !.reg_lambda = IF @ = None THEN DefaultPath ELSE @,
                 !.fit_ = None, !.ynull_ = None]

WithDefaultPath(self) ==
    [self EXCEPT !.reg_lambda = IF @ = None THEN DefaultPath ELSE @]

InitialCoefs(r, n_features) ==
    [i \in 1..(n_features + 1) |-> TDiv(Normal(r, i - 1), n_features + 1)]

FitFrame(self, X, y, r) ==
    LET init == InitialCoefs(r, X.p)
        beta0_hat == Alloc(EmptyHeap, <<init[1]>>)
        beta_hat == Alloc(beta0_hat, Tail(init))
    IN  [FcIdle EXCEPT !.pc = IF self.reg_lambda.v = <<>> THEN "return" ELSE "lambda",
                       !.X = X.v, !.y = y, !.heap = beta_hat, !.init = init]

\* what a fit() call leaves in ret; before is history: fit_ and ynull_ at the call
FitOutcome(kind, self) ==
    [op |-> "fit", kind |-> kind, before |-> [fit_ |-> self.fit_, ynull_ |-> self.ynull_]]

Fit(X, y) ==
    /\ fc.pc = "idle"
    /\ FitModelled(glm)
    /\ UNCHANGED <<prev, px>>
    /\ IF X.n = 0 \/ X.p = 0
       THEN /\ ret' = FitOutcome("ValueError", glm)
            /\ UNCHANGED <<glm, rng, fc>>
       ELSE IF glm.group # None /\ Len(glm.group.v) # X.p
       THEN /\ ret' = FitOutcome("ValueError", glm)
            /\ glm' = WithDefaultPath(glm)
            /\ UNCHANGED <<rng, fc>>
       ELSE IF WithDefaultPath(glm).reg_lambda.tag # "list"
       THEN \* enumerate() of a float
            /\ ret' = FitOutcome("TypeError", glm)
            /\ glm' = WithDefaultPath(glm)
            /\ rng' = NextRng(rng)
            /\ UNCHANGED fc
       ELSE /\ ret' = FitOutcome("running", glm)
            /\ glm' = WithDefaultPath(glm)
            /\ rng' = NextRng(rng)
            /\ fc' = FitFrame(WithDefaultPath(glm), X, y, rng)

(***************************************************************************)
(* Lines 632-659: the head of the loop over the path for lambda index l.   *)
(***************************************************************************)
CurLambda == glm.reg_lambda.v[fc.l + 1]

SolverPc == IF glm.solver = "batch-gradient" THEN "batch" ELSE "cd"

WarmStartCold(fit_params, l) ==
    Append(fit_params, [beta0 |-> View(1, 1, 1), beta |-> View(2, 1, Len(fc.init) - 1)])

WarmStart(fit_params, l) ==
    LET n == Len(fit_params) + 1
        appended == Append(fit_params, [beta0 |-> View(1, 1, 1), beta |-> View(2, 1, Len(fc.init) - 1)])
    IN  IF l = 0 THEN appended ELSE [appended EXCEPT ![n] = appended[n - 1]]

\* lines 646-650: beta is a new array that receives a copy of the start
\* values held by the record rec
TempBetaShared(heap, vals, rec) ==
    IF rec.beta0.a = rec.beta.a THEN [heap |-> heap, beta |-> rec.beta.a]
    ELSE [heap |-> Alloc(heap, vals), beta |-> NewId(heap)]

TempBeta(heap, vals, rec) == [heap |-> Alloc(heap, vals), beta |-> NewId(heap)]

LambdaStart ==
    /\ fc.pc = "lambda"
    /\ LET fit_params == WarmStart(fc.fit_params, fc.l)
           start == Deref(fc.heap, fit_params[Len(fit_params)])
           vals == start.beta0 \o start.beta
           tmp == TempBeta(fc.heap, vals, fit_params[Len(fit_params)])
           cd == glm.solver = "cdfast"
       IN  fc' = [fc EXCEPT
                    !.fit_params = fit_params,
                    !.heap = tmp.heap,
                    !.beta = tmp.beta,
                    !.g = IF cd THEN <<>> ELSE [i \in Idx(vals) |-> 0],
                    !.ActiveSet = IF cd THEN [i \in Idx(vals) |-> 1] ELSE <<>>,
                    !.z = IF cd THEN [i \in Idx(fc.X) |-> vals[1] + Dot(fc.X[i], Tail(vals))]
                          ELSE <<>>,
                    !.L = <<>>, !.DL = <<>>, !.t = 0, !.k = 0,
                    !.pc = IF glm.max_iter > 0 THEN SolverPc ELSE "store"]
    /\ UNCHANGED <<glm, ret, rng, prev, px>>

\* an exception leaves fit(): the frame is gone, self.fit_ was not assigned
FitRaises(exc) ==
    /\ ret' = [ret EXCEPT !.kind = exc]
    /\ fc' = FcIdle
    /\ UNCHANGED <<glm, rng, prev, px>>

(***************************************************************************)
(* Lines 661-666: one batch gradient step; beta is rebound to a new array. *)
(***************************************************************************)
BatchStep ==
    /\ fc.pc = "batch"
    /\ LET b == fc.heap[fc.beta]
       IN  IF GradRaises(glm, Tail(b)) THEN FitRaises("ValueError")
           ELSE \E grad \in {GradL2loss(glm, b[1], Tail(b), CurLambda, fc.X, fc.y)} :
                LET g == <<grad.beta0>> \o grad.beta
                    new == [i \in Idx(b) |-> b[i] - FMul(glm.learning_rate, g[i])]
                    heap == Alloc(fc.heap, new)
                IN  /\ fc' = [fc EXCEPT !.g = g,
                                        !.beta = NewId(fc.heap),
                                        !.heap = IF Referenced(fc.fit_params, fc.beta)
                                                 THEN heap ELSE Free(heap, fc.beta),
                                        !.pc = "prox"]
                    /\ UNCHANGED <<glm, ret, rng, prev, px>>

(***************************************************************************)
(* Lines 667-668 and _cdfast, lines 535-560: coordinate fc.k of one cycle. *)
(***************************************************************************)
\* InvCov[k - 1, :] is out of bounds (IndexError) when Tau has fewer than k columns
CdRaises(self, ActiveSet, k) ==
    ActiveSet[k + 1] # 0 /\ self.Tau # None /\ k > Len(self.Tau.v[1])

CdStep ==
    /\ fc.pc = "cd"
    /\ IF CdRaises(glm, fc.ActiveSet, fc.k) THEN FitRaises("IndexError")
       ELSE \E r \in {CdCoordinate(glm, fc.X, fc.y, fc.z, fc.ActiveSet, fc.heap[fc.beta],
                                     CurLambda, fc.k)} :
                /\ fc' = [fc EXCEPT !.heap[fc.beta] = r.beta,
                                    !.z = r.z,
                                    !.k = IF fc.k = Len(fc.X[1]) THEN 0 ELSE fc.k + 1,
                                    !.pc = IF fc.k = Len(fc.X[1]) THEN "prox" ELSE "cd"]
                /\ UNCHANGED <<glm, ret, rng, prev, px>>

(***************************************************************************)
(* Lines 670-688: the proximal operator on beta[1:], the active set, the   *)
(* loss and the convergence test of iteration fc.t.                        *)
(***************************************************************************)
\* lines 674-675: ActiveSet[np.where(beta[1:] == 0)[0] + 1] = 0
UpdateActiveSetKeepsAll(ActiveSet, beta) == ActiveSet

UpdateActiveSetNoShift(ActiveSet, beta) ==
    [i \in Idx(ActiveSet) |-> IF i < Len(beta) /\ beta[i + 1] = 0 THEN 0 ELSE ActiveSet[i]]

UpdateActiveSet(ActiveSet, beta) ==
    [i \in Idx(ActiveSet) |-> IF i > 1 /\ beta[i] = 0 THEN 0 ELSE ActiveSet[i]]

\* line 680, `if t > 1:`: iteration t records a loss difference and tests it
TestRunsFromSecond(t) == t > 0

TestRuns(t) == t > 1

\* np.abs(DL[-1] / L[-1]) < tol; a division by a zero loss gives inf or nan,
\* which is not below tol
Converged(DL, L, tol) == L # 0 /\ Abs(FDiv(DL, L)) < tol

\* the loop over t in range(0, max_iter) ends after iteration t: by the break
\* of the convergence test, or because t was the last value of the range
LoopEndsLate(t, converged, max_iter) == converged \/ t + 1 > max_iter

LoopEnds(t, converged, max_iter) == converged \/ t + 1 >= max_iter

ProxStep ==
    /\ fc.pc = "prox"
    /\ \E beta \in {<<fc.heap[fc.beta][1]>>
                        \o Prox(glm.group, Tail(fc.heap[fc.beta]), FMul(CurLambda, glm.alpha))} :
           IF L2penaltyRaises(glm, Tail(beta)) THEN FitRaises("ValueError")
           ELSE \E J \in {Loss(glm, beta[1], Tail(beta), CurLambda, fc.X, fc.y)} :
                LET L == Append(fc.L, J)
                    n == Len(L)
                    DL == IF TestRuns(fc.t) THEN Append(fc.DL, L[n] - L[n - 1]) ELSE fc.DL
                    stop == LoopEnds(fc.t,
                                     TestRuns(fc.t) /\ Converged(DL[Len(DL)], L[n], glm.tol),
                                     glm.max_iter)
                IN  /\ fc' = [fc EXCEPT
                                !.heap[fc.beta] = beta,
                                !.ActiveSet = IF glm.solver = "cdfast"
                                              THEN UpdateActiveSet(@, beta) ELSE @,
                                !.L = L, !.DL = DL,
                                !.t = IF stop THEN fc.t ELSE fc.t + 1,
                                !.pc = IF stop THEN "store" ELSE SolverPc]
                    /\ UNCHANGED <<glm, ret, rng, prev, px>>

(***************************************************************************)
(* Lines 690-691: the record of lambda l becomes views of the beta array.  *)
(***************************************************************************)
StoreRecordFirst(fit_params, beta, n) ==
    [fit_params EXCEPT ![1] = [beta0 |-> View(beta, 1, 1), beta |-> View(beta, 2, n)]]

StoreRecord(fit_params, beta, n) ==
    [fit_params EXCEPT ![Len(fit_params)] =
        [beta0 |-> View(beta, 1, 1), beta |-> View(beta, 2, n)]]

LambdaEnd ==
    /\ fc.pc = "store"
    /\ LET b == fc.heap[fc.beta]
       IN  fc' = [fc EXCEPT
                    !.fit_params = StoreRecord(@, fc.beta, Len(b)),
                    !.ended = Append(@, [rl |-> CurLambda, beta0 |-> <<b[1]>>, beta |-> Tail(b)]),
                    !.l = fc.l + 1,
                    !.pc = IF fc.l + 1 < Len(glm.reg_lambda.v) THEN "lambda" ELSE "return"]
    /\ UNCHANGED <<glm, ret, rng, prev, px>>

(***************************************************************************)
(* Lines 693-699: self.fit_ and self.ynull_ are assigned and fit returns.  *)
(* The arrays outlive the frame only through fit_, so fit_ is kept by      *)
(* value from here on.                                                     *)
(***************************************************************************)
Mean(y) == TDiv(SumSeq(y), Len(y))

FitKey(self, X, y) == [self |-> [self EXCEPT !.fit_ = None, !.ynull_ = None], X |-> X, y |-> y]

FittedRecords(heap, fit_params) == [i \in Idx(fit_params) |-> Deref(heap, fit_params[i])]

FitReturn ==
    /\ fc.pc = "return"
    /\ LET fit_ == List(FittedRecords(fc.heap, fc.fit_params))
           key == FitKey(glm, fc.X, fc.y)
       IN  /\ glm' = [glm EXCEPT !.fit_ = fit_, !.ynull_ = Scalar(Mean(fc.y))]
           /\ ret' = [op |-> "fit", kind |-> "ok", before |-> ret.before,
                      init |-> fc.init, ended |-> fc.ended,
                      repeat |-> prev # None /\ prev.key = key,
                      prev_init |-> IF prev = None THEN <<>> ELSE prev.init,
                      prev_fit |-> IF prev = None THEN None ELSE prev.fit_]
           /\ prev' = [tag |-> "fit", key |-> key, init |-> fc.init, fit_ |-> fit_]
    /\ fc' = FcIdle
    /\ UNCHANGED <<rng, px>>

(***************************************************************************)
(* GLM.simulate, lines 903-913: RandomState(...) is dropped here as well,  *)
(* and the sample is drawn from the global generator.                      *)
(***************************************************************************)
Simulate ==
    /\ fc.pc = "idle"
    /\ rng' = NextRng(rng)
    /\ ret' = [op |-> "simulate", kind |-> "ok"]
    /\ UNCHANGED <<glm, fc, prev, px>>

(***************************************************************************)
(* GLM.predict, lines 717-737.  Only the shape of the returned array is    *)
(* modelled.  _lmb gives an (n_samples, n_classes) array for one record;   *)
(* np.asarray of a list of k of them is (k, n_samples, n_classes), and of  *)
(* an empty list is (0,).                                                  *)
(***************************************************************************)
LmbShape(rec, X) == <<X.n, Len(rec.beta0)>>

\* np.dot(X, beta) raises ValueError when X is not as wide as beta is long
LmbRaises(self, X) ==
    \/ self.fit_.tag = "list" /\ \E i \in Idx(self.fit_.v) : Len(self.fit_.v[i].beta) # X.p
    \/ self.fit_.tag = "dict" /\ Len(self.fit_.v.beta) # X.p

DropAxis(shape, axis) == [i \in 1..(Len(shape) - 1) |-> IF i <= axis THEN shape[i] ELSE shape[i + 1]]

PredictOutcome(self, X) ==
    IF X.tag # "ndarray" THEN Raised("predict", "ValueError")
    ELSE IF self.fit_ = None THEN Raised("predict", "TypeError")
    ELSE IF LmbRaises(self, X) THEN Raised("predict", "ValueError")
    ELSE LET yhat == IF self.fit_.tag = "list"
                     THEN IF self.fit_.v = <<>> THEN <<0>>
                          ELSE <<Len(self.fit_.v)>> \o LmbShape(self.fit_.v[1], X)
                     ELSE LmbShape(self.fit_.v, X)
             last == Len(yhat)
         IN  IF self.distr # "multinomial"
             THEN IF yhat[last] = 0 THEN Raised("predict", "IndexError")
                  ELSE [op |-> "predict", kind |-> "ok", n_samples |-> X.n,
                        shape |-> DropAxis(yhat, last - 1)]
             ELSE LET axis == IF self.fit_.tag = "dict" THEN 1 ELSE 2
                  IN  IF axis >= last THEN Raised("predict", "AxisError")
                      ELSE [op |-> "predict", kind |-> "ok", n_samples |-> X.n,
                            shape |-> DropAxis(yhat, axis)]

Predict(X) ==
    /\ fc.pc = "idle"
    /\ ret' = PredictOutcome(glm, X)
    /\ UNCHANGED <<glm, rng, fc, prev, px>>

(***************************************************************************)
(* GLM.score, lines 837-884.  One score per row of yhat; the values come   *)
(* from utils.log_likelihood and are not modelled.  GLM defines no         *)
(* predict_proba.                                                          *)
(***************************************************************************)
ScoreNoFitCheck(self, X, y) ==
    IF self.score_metric \notin {"deviance", "pseudo_R2"} THEN Raised("score", "ValueError")
    ELSE IF self.distr = "multinomial" THEN Raised("score", "AttributeError")
    ELSE LET p == PredictOutcome(self, X)
         IN  IF p.kind # "ok" THEN Raised("score", p.kind)
             ELSE [op |-> "score", kind |-> "ok",
                   shape |-> <<IF self.fit_.tag = "dict" THEN 1 ELSE p.shape[1]>>]

ScoreOutcome(self, X, y) ==
    IF self.score_metric \notin {"deviance", "pseudo_R2"} THEN Raised("score", "ValueError")
    ELSE IF self.ynull_ = None THEN Raised("score", "ValueError")
    ELSE IF self.distr = "multinomial" THEN Raised("score", "AttributeError")
    ELSE LET p == PredictOutcome(self, X)
         IN  IF p.kind # "ok" THEN Raised("score", p.kind)
             ELSE [op |-> "score", kind |-> "ok",
                   shape |-> <<IF self.fit_.tag = "dict" THEN 1 ELSE p.shape[1]>>]

Score(X, y) ==
    /\ fc.pc = "idle"
    /\ ret' = [self |-> glm] @@ ScoreOutcome(glm, X, y)
    /\ UNCHANGED <<glm, rng, fc, prev, px>>

(***************************************************************************)
(* GLM.__getitem__, lines 214-224.  A key is an int, a slice lo:hi or      *)
(* something else (a str).  Indexing the fit record of a model that was    *)
(* indexed by an int (a dict) raises KeyError (int) or TypeError (slice).  *)
(***************************************************************************)
IntKey(i) == [tag |-> "int", i |-> i]

SliceKey(lo, hi) == [tag |-> "slice", lo |-> lo, hi |-> hi]

StrKey == [tag |-> "str"]

Min(a, b) == IF a <= b THEN a ELSE b

\* seq[key] of a Python list: None when the int is out of range
PyGetItem(seq, key) ==
    LET n == Len(seq)
    IN  IF key.tag = "slice" THEN List(SubSeq(seq, Min(key.lo, n) + 1, Min(key.hi, n)))
        ELSE IF key.i >= n \/ key.i < -n THEN None
        ELSE Scalar(seq[(IF key.i < 0 THEN key.i + n ELSE key.i) + 1])

SelectFit(fit_, key) ==
    LET got == PyGetItem(fit_.v, key)
    IN  IF got.tag = "scalar" THEN Dict(got.v) ELSE got

GetItemKeepsPath(self, key) ==
    IF self.fit_ = None THEN Raised("getitem", "ValueError")
    ELSE IF key.tag \notin {"slice", "int"} THEN Raised("getitem", "IndexError")
    ELSE IF self.fit_.tag = "dict"
         THEN Raised("getitem", IF key.tag = "int" THEN "KeyError" ELSE "TypeError")
    ELSE IF SelectFit(self.fit_, key) = None THEN Raised("getitem", "IndexError")
    ELSE [op |-> "getitem", kind |-> "ok",
          glm |-> [self EXCEPT !.fit_ = SelectFit(self.fit_, key)]]

GetItemOutcome(self, key) ==
    IF self.fit_ = None THEN Raised("getitem", "ValueError")
    ELSE IF key.tag \notin {"slice", "int"} THEN Raised("getitem", "IndexError")
    ELSE IF self.fit_.tag = "dict"
         THEN Raised("getitem", IF key.tag = "int" THEN "KeyError" ELSE "TypeError")
    ELSE IF SelectFit(self.fit_, key) = None THEN Raised("getitem", "IndexError")
    ELSE [op |-> "getitem", kind |-> "ok",
          glm |-> [self EXCEPT !.fit_ = SelectFit(self.fit_, key),
                               !.reg_lambda = PyGetItem(self.reg_lambda.v, key)]]

Keys == {IntKey(i) : i \in -1..MaxLambdas}
        \cup {SliceKey(lo, hi) : lo \in 0..MaxLambdas, hi \in 1..MaxLambdas}
        \cup {StrKey}

GetItem(key) ==
    /\ fc.pc = "idle"
    /\ ret' = [key |-> key, self |-> glm] @@ GetItemOutcome(glm, key)
    /\ UNCHANGED <<glm, rng, fc, prev, px>>

\* glm = glm[key]: the caller goes on with the model __getitem__ returned
Rebind ==
    /\ fc.pc = "idle"
    /\ ret.op = "getitem"
    /\ ret.kind = "ok"
    /\ glm' = ret.glm
    /\ ret' = NoCall
    /\ UNCHANGED <<rng, fc, prev, px>>

Next ==
    \/ \E X \in {XFit, XWide, XEmpty, XNoFeatures} : Fit(X, YFit)
    \/ LambdaStart
    \/ BatchStep
    \/ CdStep
    \/ ProxStep
    \/ LambdaEnd
    \/ FitReturn
    \/ \E X \in {XFit, XOneRow, XNotArray} : Predict(X)
    \/ \E X \in {XFit, XNotArray} : Score(X, YFit)
    \/ \E key \in Keys : GetItem(key)
    \/ Rebind
    \/ Simulate

Spec == Init /\ [][Next]_vars

\* a call of fit that has begun runs on: nothing else happens in the process
\* while fit is on the stack
FitProgress == LambdaStart \/ BatchStep \/ CdStep \/ ProxStep \/ LambdaEnd \/ FitReturn

\* the calls of fit alone
NextFit ==
    \/ \E X \in {XFit, XWide, XEmpty, XNoFeatures} : Fit(X, YFit)
    \/ LambdaStart
    \/ BatchStep
    \/ CdStep
    \/ ProxStep
    \/ LambdaEnd
    \/ FitReturn

SpecFit == Init /\ [][NextFit]_vars /\ WF_vars(FitProgress)

(***************************************************************************)
(* Properties of fit.                                                      *)
(***************************************************************************)
FitReturned == ret.op = "fit" /\ ret.kind = "ok"

\* C1: after fit returns normally, fit_ holds one record per lambda of the
\* path, and record i is the (beta0, beta) the inner loop run for
\* reg_lambda[i] ended with, in path order.
C1_RecordsFollowPath ==
    FitReturned =>
        /\ glm.fit_.tag = "list"
        /\ Len(glm.fit_.v) = Len(glm.reg_lambda.v)
        /\ Len(ret.ended) = Len(glm.reg_lambda.v)
        /\ \A i \in Idx(glm.reg_lambda.v) :
              /\ ret.ended[i].rl = glm.reg_lambda.v[i]
              /\ glm.fit_.v[i] = [beta0 |-> ret.ended[i].beta0, beta |-> ret.ended[i].beta]

\* a path of MaxLambdas lambdas was fit and its records are not all the same
C1_Witness ==
    /\ FitReturned
    /\ Len(glm.fit_.v) = MaxLambdas
    /\ glm.fit_.v[1] # glm.fit_.v[MaxLambdas]
    /\ glm.max_iter > 0

InInnerLoop == fc.pc \in {"batch", "cd", "prox"}

\* Tau is absent or as wide as the X of the running call
TauFits == glm.Tau = None \/ Len(glm.Tau.v) = Len(fc.X[1])

\* C2: the inner loop of every lambda runs at most max_iter iterations; when
\* it has ended, by convergence or by exhaustion, the record of that lambda is
\* its (beta0, beta); and a fit that has passed validation (Tau included)
\* returns normally.
C2_InnerLoopEnds ==
    /\ [](InInnerLoop => fc.t < glm.max_iter)
    /\ [](Len(fc.L) <= glm.max_iter)
    /\ [](fc.pc \in {"lambda", "return"} =>
            /\ Len(fc.fit_params) = fc.l
            /\ Len(fc.ended) = fc.l
            /\ \A i \in 1..fc.l :
                  Deref(fc.heap, fc.fit_params[i]) =
                      [beta0 |-> fc.ended[i].beta0, beta |-> fc.ended[i].beta])
    /\ (fc.pc # "idle" /\ TauFits) ~> FitReturned

\* an inner loop has used up max_iter without passing the convergence test
C2_Witness ==
    /\ fc.pc = "store"
    /\ glm.max_iter > 2
    /\ Len(fc.L) = glm.max_iter
    /\ ~Converged(fc.DL[Len(fc.DL)], fc.L[Len(fc.L)], glm.tol)

\* C3: a fit call that ended in an error left fit_ and ynull_ as they were
\* when it was called.
C3_FailedFitStoresNothing ==
    (ret.op = "fit" /\ ret.kind \notin {"ok", "running"}) =>
        /\ glm.fit_ = ret.before.fit_
        /\ glm.ynull_ = ret.before.ynull_

\* a fit call failed with a validation error on a model that had been fit
C3_Witness ==
    /\ ret.op = "fit"
    /\ ret.kind = "ValueError"
    /\ glm.fit_ # None
    /\ glm.ynull_ # None

\* C5: a fit call with the same random_state, X, y and configuration as the
\* fit call before it starts from the same initial coefficients and gives the
\* same fit records.
C5_SameSeedSameFit ==
    (FitReturned /\ ret.repeat) =>
        /\ ret.init = ret.prev_init
        /\ glm.fit_ = ret.prev_fit

(***************************************************************************)
(* Properties of predict, score and __getitem__.                           *)
(***************************************************************************)
\* C4: for a non-multinomial model predict returns shape
\* (n_lambdas, n_samples) when the model holds more than one fit record and
\* (n_samples,) otherwise.
C4_PredictShape ==
    (ret.op = "predict" /\ ret.kind = "ok" /\ glm.distr # "multinomial") =>
        ret.shape = IF glm.fit_.tag = "list" /\ Len(glm.fit_.v) > 1
                    THEN <<Len(glm.fit_.v), ret.n_samples>>
                    ELSE <<ret.n_samples>>

Recognized == {"deviance", "pseudo_R2"}

\* C9: score returns scores only for a fitted model with a recognized
\* score_metric; on a never-fit model, or with another score_metric, it
\* raises ValueError, for every distribution; the model is left as it was.
C9_ScoreRequiresFit ==
    ret.op = "score" =>
        /\ ret.kind = "ok" => (ret.self.fit_ # None /\ ret.self.score_metric \in Recognized)
        /\ (ret.self.fit_ = None \/ ret.self.score_metric \notin Recognized) =>
              ret.kind = "ValueError"
        /\ glm = ret.self

\* score was refused on a model that was never fit, its metric being recognized
C9_Witness ==
    /\ ret.op = "score"
    /\ ret.kind = "ValueError"
    /\ glm.fit_ = None
    /\ glm.score_metric \in Recognized
    /\ glm.distr = "poisson"

\* sub is the selection key makes of the list orig
Selects(orig, key, sub) ==
    LET n == Len(orig)
    IN  IF key.tag = "slice"
        THEN LET lo == Min(key.lo, n)
                 m == Max(Min(key.hi, n) - lo, 0)
             IN  /\ Len(sub.v) = m
                 /\ \A j \in 1..m : sub.v[j] = orig[lo + j]
        ELSE sub.v = orig[IF key.i < 0 THEN key.i + n + 1 ELSE key.i + 1]

SliceOrInt == {"slice", "int"}

\* what slicing gives when it succeeds: the selection of both lists, in a new
\* model that differs from the original in nothing else
SlicedModel ==
    /\ ret.kind = "ok"
    /\ ret.glm.fit_.tag = (IF ret.key.tag = "int" THEN "dict" ELSE "list")
    /\ ret.glm.reg_lambda.tag = (IF ret.key.tag = "int" THEN "scalar" ELSE "list")
    /\ Selects(ret.self.fit_.v, ret.key, ret.glm.fit_)
    /\ Selects(ret.self.reg_lambda.v, ret.key, ret.glm.reg_lambda)
    /\ [ret.glm EXCEPT !.fit_ = None, !.reg_lambda = None] =
       [ret.self EXCEPT !.fit_ = None, !.reg_lambda = None]

InRange(key, n) == key.tag = "int" => (key.i >= -n /\ key.i < n)

CurBeta == fc.heap[fc.beta]

\* some coordinate of the current cdfast optimization has been updated
AfterCoordinate ==
    /\ glm.solver = "cdfast"
    /\ (fc.pc = "cd" /\ fc.k > 0) \/ fc.pc = "prox"

\* C11: with cdfast, after every coordinate update of every cycle the cached
\* z equals beta0 + X * beta of the current coefficients.
C11_ZInSync ==
    AfterCoordinate => fc.z = Lmb(CurBeta[1], Tail(CurBeta), fc.X)

\* the inner loop of one lambda is running or has just ended
InLoopOrStore == fc.pc \in {"batch", "cd", "prox", "store"}

\* C12: every iteration records one loss and, when it evaluates the
\* convergence test, one loss difference; the iteration with index i evaluates
\* the test iff at least 2 losses were recorded by the iterations before it
\* (i >= 2), so after n iterations Max(n - 2, 0) tests have run.  The loop
\* ends before max_iter iterations only through a test, and with
\* max_iter >= 2 never before iterations 0 and 1 have both run.
C12_TestFromThirdIteration ==
    InLoopOrStore =>
        /\ Len(fc.DL) = Max(Len(fc.L) - 2, 0)
        /\ (fc.pc = "store" /\ Len(fc.L) < glm.max_iter) => Len(fc.DL) > 0
        /\ (fc.pc = "store" /\ glm.max_iter >= 2) => Len(fc.L) >= 2

\* a loop that ran iterations 0 and 1 untested and stopped by the test of
\* iteration 2, before max_iter
C12_Witness ==
    /\ fc.pc = "store"
    /\ Len(fc.L) = 3
    /\ Len(fc.DL) = 1
    /\ glm.max_iter > 3

\* record f of the fit frame is inside the cdfast optimization of one lambda
CdActive(f) == glm.solver = "cdfast" /\ f.pc \in {"cd", "prox", "store"}

Features == 2..(NFeatures + 1)

\* until the first proximal step of a lambda every coordinate is active
C13_AllActiveAtStart ==
    (CdActive(fc) /\ fc.L = <<>>) => \A i \in Idx(fc.ActiveSet) : fc.ActiveSet[i] = 1

\* within one lambda an inactive coordinate stays inactive, and a proximal
\* step leaves no feature active whose coefficient it leaves at exactly zero
C13_ShrinkStep ==
    (CdActive(fc) /\ CdActive(fc') /\ fc'.l = fc.l) =>
        /\ \A i \in Idx(fc.ActiveSet) : fc.ActiveSet[i] = 0 => fc'.ActiveSet[i] = 0
        /\ fc.pc = "prox" =>
               \A i \in Features \cap Idx(fc'.ActiveSet) :
                   fc'.heap[fc'.beta][i] = 0 => fc'.ActiveSet[i] = 0

\* C13: with cdfast the active set is all-active when the optimization of a
\* lambda starts; within one lambda it only shrinks: each proximal step
\* removes every feature whose value after the step is exactly zero, and a
\* removed coordinate is not active again in a later cycle of that lambda.
C13_ActiveSetShrinks == []C13_AllActiveAtStart /\ [][C13_ShrinkStep]_vars

\* a later cycle of a lambda running with one feature removed and one active,
\* in a fit whose previous lambda had removed a feature as well
C13_Witness ==
    /\ CdActive(fc)
    /\ fc.pc = "cd"
    /\ Len(fc.L) >= 2
    /\ \E i, j \in Features : fc.ActiveSet[i] = 0 /\ fc.ActiveSet[j] = 1
    /\ fc.l > 0
    /\ \E i \in Idx(fc.ended[fc.l].beta) : fc.ended[fc.l].beta[i] = 0

\* the temporary coefficients of a lambda are set up and no step of its
\* inner loop has run yet
AtLoopStart == fc.pc \in {"batch", "cd", "store"} /\ fc.L = <<>> /\ fc.k = 0

\* the record of the lambda with (0-based) index l, as the list of records
\* holds it
RecordOf(f, l) ==
    Deref(f.heap, f.fit_params[l + 1]).beta0 \o Deref(f.heap, f.fit_params[l + 1]).beta

\* C14: the inner loop of the lambda with index l > 0 starts from exactly the
\* (beta0, beta) held as the record of lambda l - 1, which are the
\* coefficients that lambda ended with; the loop of lambda 0 starts from the
\* random initialization.
C14_WarmStartChain ==
    AtLoopStart =>
        IF fc.l = 0 THEN CurBeta = fc.init
        ELSE /\ CurBeta = RecordOf(fc, fc.l - 1)
             /\ CurBeta = fc.ended[fc.l].beta0 \o fc.ended[fc.l].beta

\* a lambda after the first starts from coefficients that differ from the
\* random initialization
C14_Witness ==
    /\ AtLoopStart
    /\ fc.pc # "store"
    /\ fc.l > 0
    /\ CurBeta # fc.init

\* a step of the cdfast cycle that does not raise: coordinate fc.k is handled
\* and the cycle moves to fc.k + 1, or to the proximal step after the last
\* feature; no other coefficient changes; a coordinate outside the active set
\* leaves beta and z as they are; an active one takes its Newton step from
\* the z cached at this point, i.e. after the earlier coordinates' updates
C15_CoordinateStep ==
    (glm.solver = "cdfast" /\ fc.pc = "cd" /\ fc'.pc \in {"cd", "prox"}) =>
        LET k == fc.k
            new == [beta |-> fc'.heap[fc'.beta], z |-> fc'.z]
        IN  /\ IF k < Len(fc.X[1]) THEN fc'.pc = "cd" /\ fc'.k = k + 1
               ELSE fc'.pc = "prox"
            /\ \A i \in Idx(CurBeta) \ {k + 1} : new.beta[i] = CurBeta[i]
            /\ IF fc.ActiveSet[k + 1] = 0
               THEN new = [beta |-> CurBeta, z |-> fc.z]
               ELSE new = CdActiveCoordinate(glm, fc.X, fc.y, fc.z, CurBeta, CurLambda, k)

\* every cycle is entered at the intercept
C15_CycleStart == (fc.pc # "cd" /\ fc'.pc = "cd") => fc'.k = 0

\* C15: one cdfast cycle handles the coordinates once each in the order
\* intercept (k = 0), then the features by increasing index; an active
\* coordinate is updated from the z that the earlier coordinates of the cycle
\* have already updated; a coordinate outside the active set keeps its beta
\* and leaves z unchanged.
C15_CycleInOrder == [][C15_CoordinateStep /\ C15_CycleStart]_vars

\* in a later cycle the last feature, active and nonzero, is about to be
\* updated after the feature before it was skipped as inactive
C15_Witness ==
    /\ glm.solver = "cdfast"
    /\ fc.pc = "cd"
    /\ fc.k = Len(fc.X[1])
    /\ fc.k >= 2
    /\ fc.ActiveSet[fc.k] = 0
    /\ fc.ActiveSet[fc.k + 1] = 1
    /\ CurBeta[fc.k + 1] # 0

\* every record whose lambda has ended holds the coefficients that lambda
\* ended with
C16_RecordsKept ==
    fc.pc # "idle" =>
        \A i \in Idx(fc.ended) :
            RecordOf(fc, i - 1) = fc.ended[i].beta0 \o fc.ended[i].beta

\* no step of a running fit changes a record whose lambda has ended, and the
\* return hands out these records as they are
C16_RecordFrame ==
    /\ (fc.pc # "idle" /\ fc'.pc # "idle") =>
           \A i \in Idx(fc.ended) : RecordOf(fc', i - 1) = RecordOf(fc, i - 1)
    /\ (fc.pc = "return" /\ fc'.pc = "idle") =>
           \A i \in Idx(fc.ended) :
               glm'.fit_.v[i].beta0 \o glm'.fit_.v[i].beta = RecordOf(fc, i - 1)

\* C16: once the record of lambda i is stored, no step of a later lambda
\* (coordinate updates and proximal steps in place, the warm-start copy, the
\* storing of later records) changes the (beta0, beta) it holds; at return
\* record i is what lambda i ended with.
C16_StoredRecordsUnchanged == []C16_RecordsKept /\ [][C16_RecordFrame]_vars

\* a later lambda has run at least one iteration of in-place cdfast updates
\* and its coefficients have moved away from the stored record it started from
C16_Witness ==
    /\ glm.solver = "cdfast"
    /\ fc.pc = "cd"
    /\ fc.l >= 1
    /\ Len(fc.L) >= 1
    /\ CurBeta # RecordOf(fc, fc.l - 1)

Coefs == (-MaxCoef)..MaxCoef

Thresholds == 0..MaxCoef

GroupVectors == [1..NFeatures -> 0..MaxGroupId]

InitProx ==
    \E group \in {Arr(g) : g \in GroupVectors} \cup {None}, thresh \in Thresholds,
       beta \in [1..NFeatures -> Coefs] :
        /\ px = [pc |-> "new", group |-> group, thresh |-> thresh,
                 orig |-> beta, beta |-> beta, res |-> <<>>, first |-> <<>>]
        /\ glm = BaseGLM
        /\ ret = NoCall
        /\ rng = 0
        /\ fc = FcIdle
        /\ prev = None

ProxOnce ==
    /\ px.pc = "new"
    /\ px' = [px EXCEPT !.pc = "once",
                        !.res = Prox(px.group, px.beta, px.thresh),
                        !.first = Prox(px.group, px.beta, px.thresh),
                        !.beta = ProxArg(px.group, px.beta, px.thresh)]
    /\ UNCHANGED <<glm, ret, rng, fc, prev>>

ProxTwice ==
    /\ px.pc = "once"
    /\ px' = [px EXCEPT !.pc = "twice",
                        !.res = Prox(px.group, px.res, px.thresh),
                        !.beta = IF px.group = None THEN px.beta
                                 ELSE ProxArg(px.group, px.res, px.thresh)]
    /\ UNCHANGED <<glm, ret, rng, fc, prev>>

NextProx == ProxOnce \/ ProxTwice

SpecProx == InitProx /\ [][NextProx]_vars

(***************************************************************************)
(* Properties of the proximal operator, checked under SpecProx.            *)
(***************************************************************************)
PxUngrouped == px.group = None

\* the group of coefficient i has norm at or below the threshold in the input
\* (an ungrouped coefficient is its own group); exact, by squares
PxAtOrBelow(i) ==
    IF px.group.v[i] # 0
    THEN SumSq(px.orig, [j \in Idx(px.orig) |-> px.group.v[j] = px.group.v[i]])
            <= px.thresh * px.thresh
    ELSE Abs(px.orig[i]) <= px.thresh

\* C6: grouped operator: every coefficient of a group whose L2 norm is at or
\* below the threshold (every ungrouped coefficient with |beta| at or below
\* it) is exactly 0 in the result; every coefficient of a group over the
\* threshold is shrunk toward zero and keeps its sign.
C6_GroupZeroedOrShrunk ==
    (px.pc = "once" /\ ~PxUngrouped) =>
        \A i \in Idx(px.orig) :
            IF PxAtOrBelow(i)
            THEN px.res[i] = 0
            ELSE /\ Sign(px.res[i]) = Sign(px.orig[i])
                 /\ Abs(px.res[i]) <= Abs(px.orig[i])

\* C7 as stated: the second application returns the vector the first returned.
C7_Idempotent == px.pc = "twice" => px.res = px.first

\* C7 amended: the second application keeps every coefficient that the first
\* left at zero, and at threshold 0 both applications return beta itself.
C7_FixedWhereZero ==
    px.pc = "twice" =>
        /\ \A i \in Idx(px.orig) : px.first[i] = 0 => px.res[i] = 0
        /\ px.thresh = 0 => (px.first = px.orig /\ px.res = px.first)

C7_Witness ==
    /\ px.pc = "twice"
    /\ px.thresh > 0
    /\ \E i, j \in Idx(px.orig) :
        /\ px.orig[i] # 0 /\ px.first[i] = 0 /\ px.res[i] = 0
        /\ px.first[j] # 0 /\ px.res[j] # px.first[j]

\* C8: ungrouped operator: the result is sign(beta) * max(|beta| - t, 0)
\* elementwise, so |beta| <= t gives exactly 0, no coefficient changes sign,
\* and threshold 0 returns beta.
C8_SoftThreshold ==
    (px.pc = "once" /\ PxUngrouped) =>
        /\ \A i \in Idx(px.orig) :
            /\ px.res[i] = Sign(px.orig[i]) * Max(Abs(px.orig[i]) - px.thresh, 0)
            /\ Abs(px.orig[i]) <= px.thresh => px.res[i] = 0
            /\ px.res[i] * px.orig[i] >= 0
        /\ px.thresh = 0 => px.res = px.orig
        /\ px.beta = px.orig

C8_Witness ==
    /\ px.pc = "once"
    /\ PxUngrouped
    /\ \E i, j \in Idx(px.orig) :
        /\ px.orig[i] # 0 /\ Abs(px.orig[i]) <= px.thresh /\ px.res[i] = 0
        /\ px.orig[j] < 0 /\ px.res[j] = px.orig[j] + px.thresh /\ px.res[j] < 0

====
